---- MODULE Spec2Model ----
(***************************************************************************)
(* Model of quiz_gui.py: the quiz loader (load_quiz_from_args), the quiz   *)
(* window (QuizWindow) and the notebook export (_build_note_payload,       *)
(* _write_notebook_pdf, _sanitize_filename).                               *)
(*                                                                         *)
(* A Python str is modelled as a sequence of one-character strings, so     *)
(* that strip/split/replace/join/slicing are computed and not assumed.     *)
(***************************************************************************)
EXTENDS Integers, Sequences, FiniteSets, TLC

(***************************************************************************)
(* Bounds of the model.                                                    *)
(***************************************************************************)
MaxOptions == 3        \* longest options list of a quiz item
MaxDialogs == 2        \* message boxes shown by the window before export is cut off
MaxSummaryLen == 4     \* longest enumerated knowledgeSummary
MaxTail == 2           \* longest enumerated tail after the padding of a file name
MaxApply == 2          \* successive applications of _sanitize_filename

(***************************************************************************)
(* Python str primitives.                                                  *)
(***************************************************************************)
\* the characters str.isspace() accepts, within the modelled alphabet
Whitespace == {" ", "\t", "\n"}

\* str.lstrip()
RECURSIVE LStrip(_)
LStrip(s) ==
    IF s # <<>> /\ Head(s) \in Whitespace THEN LStrip(Tail(s)) ELSE s

\* str.rstrip()
RECURSIVE RStrip(_)
RStrip(s) ==
    IF s # <<>> /\ s[Len(s)] \in Whitespace
    THEN RStrip(SubSeq(s, 1, Len(s) - 1))
    ELSE s

\* str.strip()
Strip(s) == RStrip(LStrip(s))

\* str.replace(old, new) for a one-character old
RECURSIVE Replace(_, _, _)
Replace(s, old, new) ==
    IF s = <<>> THEN <<>>
    ELSE (IF Head(s) = old THEN new ELSE <<Head(s)>>) \o Replace(Tail(s), old, new)

\* str.split(sep) for a one-character sep: empty pieces are kept
RECURSIVE SplitOn(_, _)
SplitOn(s, sep) ==
    IF \E i \in 1..Len(s) : s[i] = sep
    THEN LET i == CHOOSE k \in 1..Len(s) :
                     s[k] = sep /\ \A j \in 1..(k - 1) : s[j] # sep
         IN  <<SubSeq(s, 1, i - 1)>> \o SplitOn(SubSeq(s, i + 1, Len(s)), sep)
    ELSE <<s>>

\* length of the longest prefix of s without whitespace
RECURSIVE WordLen(_)
WordLen(s) ==
    IF s = <<>> \/ Head(s) \in Whitespace THEN 0 ELSE 1 + WordLen(Tail(s))

\* str.split() without argument: runs of whitespace separate, no empty piece
RECURSIVE SplitWhitespace(_)
SplitWhitespace(s) ==
    LET t == LStrip(s)
        n == WordLen(t)
    IN  IF t = <<>> THEN <<>>
        ELSE <<SubSeq(t, 1, n)>> \o SplitWhitespace(SubSeq(t, n + 1, Len(t)))

\* sep.join(parts)
RECURSIVE Join(_, _)
Join(parts, sep) ==
    IF parts = <<>> THEN <<>>
    ELSE IF Len(parts) = 1 THEN parts[1]
    ELSE parts[1] \o sep \o Join(Tail(parts), sep)

\* chr(n) on the code points the model can reach (58 ':' .. 74 'J')
AsciiFrom58 == <<":", ";", "<", "=", ">", "?", "@",
                 "A", "B", "C", "D", "E", "F", "G", "H", "I", "J">>
Chr(n) == AsciiFrom58[n - 57]

(***************************************************************************)
(* _sanitize_filename                                                      *)
(***************************************************************************)
bad == <<"<", ">", ":", "\"", "/", "\\", "|", "?", "*">>
MaxNameLen == 80

\* for ch in bad: name = name.replace(ch, "")
RECURSIVE RemoveBad(_, _)
RemoveBad(name, k) ==
    IF k > Len(bad) THEN name ELSE RemoveBad(Replace(name, bad[k], <<>>), k + 1)

\* name[:80] if len(name) > 80 else name
Truncate(name) ==
    IF Len(name) > MaxNameLen THEN SubSeq(name, 1, MaxNameLen) ELSE name

_sanitize_filename(name) ==
    Truncate(Strip(Join(SplitWhitespace(RemoveBad(name, 1)), <<" ">>)))

(***************************************************************************)
(* Python values used by the window.                                       *)
(***************************************************************************)
None == <<>>                 \* Optional[int] is <<>> or <<i>>
Some(i) == <<i>>

\* list[k] raises IndexError unless -len <= k < len
PyIndexOk(list, k) == -Len(list) <= k /\ k < Len(list)
PyIndex(list, k) == IF k >= 0 THEN list[k + 1] ELSE list[Len(list) + k + 1]

\* quiz_data.get("correctIndex", 0): a JSON value that is absent, an integer,
\* or a text int() cannot convert
RawAbsent == [kind |-> "absent", val |-> 0]
RawText == [kind |-> "text", val |-> 0]
RawInt(n) == [kind |-> "int", val |-> n]

\* int(quiz_data.get("correctIndex", 0)) raises ValueError on RawText
IntOk(raw) == raw.kind # "text"
IntOf(raw) == IF raw.kind = "absent" THEN 0 ELSE raw.val

\* faulty variant: the selection is compared with a one-based correct index
VerdictOneBased(selected, correct) ==
    IF selected + 1 = correct THEN "Correct" ELSE "Incorrect"

\* is_correct = selected == correct; "Correct" if is_correct else "Incorrect"
Verdict(selected, correct) == IF selected = correct THEN "Correct" ELSE "Incorrect"

\* f"{chr(65 + i)}. {text}"
Lettered(i, text) == <<Chr(65 + i), ".", " ">> \o text

(***************************************************************************)
(* knowledgeSummary splitting, as both callers write it:                   *)
(* [p.strip() for p in knowledge.replace("\n", "|").split("|") if p.strip()]*)
(***************************************************************************)
\* faulty variant: the kept pieces are not stripped
SplitPointsUntrimmed(knowledge) ==
    LET pieces == SplitOn(Replace(knowledge, "\n", <<"|">>), "|")
    IN  SelectSeq(pieces, LAMBDA p : Strip(p) # <<>>)

SplitPoints(knowledge) ==
    LET pieces == SplitOn(Replace(knowledge, "\n", <<"|">>), "|")
        kept == SelectSeq(pieces, LAMBDA p : Strip(p) # <<>>)
    IN  [i \in 1..Len(kept) |-> Strip(kept[i])]

\* submit_answer: knowledge is stripped before it is split
ShownPoints(quiz) == SplitPoints(Strip(quiz.knowledgeSummary))

\* _build_note_payload: knowledge is split as it is
PayloadPoints(quiz) == SplitPoints(quiz.knowledgeSummary)

\* "(No explanation provided)"
NoExplanation ==
    <<"(", "N", "o", " ", "e", "x", "p", "l", "a", "n", "a", "t", "i", "o", "n",
      " ", "p", "r", "o", "v", "i", "d", "e", "d", ")">>

(***************************************************************************)
(* _build_note_payload                                                     *)
(***************************************************************************)
\* the function returns iff int() and options[correct_index] do not raise
BuildOk(quiz, selected) ==
    /\ IntOk(quiz.correctIndex)
    /\ PyIndexOk(quiz.options, IntOf(quiz.correctIndex))
    /\ PyIndexOk(quiz.options, selected)

_build_note_payload(quiz, selected) ==
    LET correct_index == IntOf(quiz.correctIndex)
        correct_text == PyIndex(quiz.options, correct_index)
        selected_text == PyIndex(quiz.options, selected)
        topic == Strip(quiz.question)
        explanation == Strip(quiz.explanation)
    IN  [title |-> IF quiz.category # <<>> THEN quiz.category
                   ELSE <<"N", "o", "t", "e", "b", "o", "o", "k">>,
         topic |-> topic,
         summary |-> Verdict(selected, correct_index),
         sections |-> <<
            [heading |-> "Question", body |-> topic],
            [heading |-> "Your Answer", body |-> Lettered(selected, selected_text)],
            [heading |-> "Correct Answer",
             body |-> Lettered(correct_index, correct_text)],
            [heading |-> "Explanation",
             body |-> IF explanation # <<>> THEN explanation
                      ELSE NoExplanation] >>,
         key_points |-> PayloadPoints(quiz),
         table |-> [headers |-> <<"Option", "Text">>,
                    rows |-> [i \in 1..Len(quiz.options) |->
                                 <<Chr(65 + (i - 1)), quiz.options[i]>>]]]

\* _write_notebook_pdf: the file name under <notebook_dir>/notes
PdfName(payload) ==
    _sanitize_filename(IF payload.topic # <<>> THEN payload.topic
                       ELSE <<"n", "o", "t", "e">>)
        \o <<".", "p", "d", "f">>

(***************************************************************************)
(* State.                                                                  *)
(***************************************************************************)
VARIABLES
    pc,                  \* "start", "loaded", "mainloop" or "exited"
    argv,                \* sys.argv[1] and what the path holds
    quiz_data,           \* the value load_quiz_from_args returned
    exit_code,           \* None until the process has exited
    tracebacks,          \* exceptions no handler of the program caught
    dialogs,             \* message boxes shown, oldest first
    A4,                  \* FALSE iff the import of reportlab failed (A4 = None)
    cfg_file,            \* ~/.live-time-tutorial/config.json on disk
    cfg_writable,        \* whether _save_config can write the file
    dir_writable,        \* whether the notebook folder can be created and written
    answered,            \* QuizWindow.answered
    selected_index,      \* QuizWindow.selected_index
    selected_var,        \* QuizWindow.selected_var (tk.IntVar)
    option_buttons,      \* state of each radio button
    add_btn,             \* state of the export button
    result_badge,        \* text of the result badge
    result_text,         \* lines of the feedback text area
    config,              \* QuizWindow.config["notebookPath"]
    notebook_dir,        \* QuizWindow.notebook_dir
    notebook_path_label, \* path shown in the header
    last_payload,        \* the last payload _build_note_payload returned
    pdfs,                \* PDF files on disk
    last_call,           \* the handler of the window that ran last
    san_name,            \* argument of the _sanitize_filename call under study
    san_result           \* results of its successive applications

loader_vars == <<pc, argv, quiz_data, exit_code, tracebacks>>
env_vars == <<A4, cfg_file, cfg_writable, dir_writable>>
answer_vars == <<answered, selected_index, selected_var, option_buttons,
                 add_btn, result_badge, result_text>>
notebook_vars == <<config, notebook_dir, notebook_path_label>>
export_vars == <<dialogs, last_payload, pdfs>>
san_vars == <<san_name, san_result>>
vars == <<loader_vars, env_vars, answer_vars, notebook_vars, export_vars,
          last_call, san_vars>>

(***************************************************************************)
(* Inputs.                                                                 *)
(***************************************************************************)
OptionTexts == <<"3", "4", "5", "6", "7", "8">>
OptionsOf(n) == [i \in 1..n |-> <<OptionTexts[i]>>]

\* correctIndex of an item with n options: absent, not a number, and every
\* integer from one below the valid negative indices to one above the valid ones
CorrectIndexValues(n) ==
    {RawAbsent, RawText} \cup {RawInt(k) : k \in (-(n + 1))..n}

SampleQuestion == <<"2", "+", "2", "?">>
SampleSummary == <<"A", "d", "d", "|", "I", "n", "t">>
SampleExplanation == <<"B", "a", "s", "i", "c">>
Category == <<"M", "a", "t", "h">>

Quiz(options, correct, question, summary, explanation) ==
    [kind |-> "object", category |-> Category, question |-> question,
     options |-> options, correctIndex |-> correct,
     explanation |-> explanation, knowledgeSummary |-> summary]

\* the scenario of section 8 of the specification
SampleQuiz ==
    Quiz(OptionsOf(3), RawInt(1), SampleQuestion, SampleSummary, SampleExplanation)

\* a JSON document that is not an object
JsonArray ==
    [kind |-> "array", category |-> <<>>, question |-> <<>>, options |-> <<>>,
     correctIndex |-> RawAbsent, explanation |-> <<>>, knowledgeSummary |-> <<>>]

\* quiz items that differ in options and correctIndex
IndexedItems ==
    UNION {{Quiz(OptionsOf(n), c, SampleQuestion, SampleSummary, SampleExplanation) :
               c \in CorrectIndexValues(n)} : n \in 0..MaxOptions}

\* quiz items that differ in their texts
TextItems ==
    {Quiz(OptionsOf(3), RawInt(1), q, k, e) :
        q \in {<<>>, <<" ", "Q", ":", " ", " ", "a", "/", "b", " ">>},
        k \in {<<>>, <<" ", "\n">>, <<"a", " ", "|", " ", "b", "|", "c">>},
        e \in {<<>>, <<" ">>}}

QuizItems == IndexedItems \cup TextItems

DefaultNotebookDir == "~/Desktop/Notebook"
Paths == {DefaultNotebookDir, "/mnt/notes"}

\* what config.json may hold: no file, a file json.loads rejects, a JSON
\* document that is not an object, an object (notebookPath "" also stands
\* for an object without the key)
CfgAbsent == [kind |-> "absent", notebookPath |-> ""]
CfgCorrupt == [kind |-> "corrupt", notebookPath |-> ""]
CfgArray == [kind |-> "array", notebookPath |-> ""]
CfgObject(p) == [kind |-> "object", notebookPath |-> p]
CfgFiles == {CfgAbsent, CfgCorrupt, CfgArray} \cup {CfgObject(p) : p \in Paths \cup {""}}

\* sys.argv and the file system at start.  file/stdout are "json" (the text
\* of `data`), "text" (not JSON), and for file also "unreadable".
Args(has_arg, exists, is_py, returncode, stdout, file, data) ==
    [has_arg |-> has_arg, exists |-> exists, is_py |-> is_py,
     returncode |-> returncode, stdout |-> stdout, file |-> file, data |-> data]

NoArg == Args(FALSE, FALSE, FALSE, 0, "text", "text", SampleQuiz)
MissingFile == Args(TRUE, FALSE, FALSE, 0, "text", "text", SampleQuiz)
JsonFile(data) == Args(TRUE, TRUE, FALSE, 0, "text", "json", data)
OtherFile(file) == Args(TRUE, TRUE, FALSE, 0, "text", file, SampleQuiz)
Script(returncode, stdout, file, data) ==
    Args(TRUE, TRUE, TRUE, returncode, stdout, file, data)

FailingArgs ==
    {NoArg, MissingFile, OtherFile("text"), OtherFile("unreadable")}
    \cup {Script(0, "text", f, SampleQuiz) : f \in {"text", "json"}}
    \cup {Script(1, s, f, SampleQuiz) : s \in {"text", "json"},
                                         f \in {"text", "unreadable"}}

ReturningArgs(data) ==
    {JsonFile(data), Script(0, "json", "text", data), Script(1, "text", "json", data)}

(***************************************************************************)
(* Initial state: the process has started, nothing is loaded.              *)
(***************************************************************************)
NoData ==
    [kind |-> "none", category |-> <<>>, question |-> <<>>, options |-> <<>>,
     correctIndex |-> RawAbsent, explanation |-> <<>>, knowledgeSummary |-> <<>>]

\* the window's fields before QuizWindow.__init__ has run
NoWindow ==
    /\ answered = FALSE
    /\ selected_index = None
    /\ selected_var = -1
    /\ option_buttons = <<>>
    /\ add_btn = "disabled"
    /\ result_badge = ""
    /\ result_text = <<>>
    /\ config = ""
    /\ notebook_dir = ""
    /\ notebook_path_label = ""

NoExport ==
    /\ dialogs = <<>>
    /\ last_payload = None
    /\ pdfs = {}

NoSanitize ==
    /\ san_name = <<>>
    /\ san_result = <<>>

\* the start states explored: every way the loader can end with one sample
\* item, every quiz item from a JSON file, the items with a valid index
\* without reportlab, every content of config.json
StartCases ==
    {<<a, CfgAbsent, TRUE>> :
        a \in FailingArgs \cup ReturningArgs(SampleQuiz) \cup {JsonFile(JsonArray)}}
    \cup {<<JsonFile(q), CfgAbsent, TRUE>> : q \in QuizItems}
    \cup {<<JsonFile(q), CfgAbsent, FALSE>> : q \in TextItems}
    \cup {<<JsonFile(SampleQuiz), c, TRUE>> : c \in CfgFiles}

\* the process has started with arguments a, config file c and reportlab
\* imported or not (r); nothing has run yet
Start(a, c, r) ==
    /\ pc = "start"
    /\ argv = a
    /\ cfg_file = c
    /\ A4 = r
    /\ quiz_data = NoData
    /\ exit_code = None
    /\ tracebacks = 0
    /\ NoWindow
    /\ NoExport
    /\ last_call = "none"

Init ==
    /\ \E case \in StartCases : Start(case[1], case[2], case[3])
    /\ cfg_writable \in BOOLEAN
    /\ dir_writable \in BOOLEAN
    /\ NoSanitize

(***************************************************************************)
(* load_quiz_from_args, and how the process ends when it does not return.  *)
(***************************************************************************)
DEFAULT_QUIZ_DATA == None

ShowError(title) == [kind |-> "showerror", title |-> title]
ShowInfo(title) == [kind |-> "showinfo", title |-> title]

\* messagebox.showerror("Error", ...); sys.exit(1)
Fatal ==
    /\ dialogs' = Append(dialogs, ShowError("Error"))
    /\ pc' = "exited"
    /\ exit_code' = Some(1)
    /\ UNCHANGED <<quiz_data, tracebacks>>

\* an exception reaches the top level: traceback on stderr, exit status 1
Uncaught ==
    /\ tracebacks' = tracebacks + 1
    /\ pc' = "exited"
    /\ exit_code' = Some(1)
    /\ UNCHANGED <<quiz_data, dialogs>>

Return(data) ==
    /\ quiz_data' = data
    /\ pc' = "loaded"
    /\ UNCHANGED <<exit_code, tracebacks, dialogs>>

load_quiz_from_args ==
    /\ pc = "start"
    /\ IF DEFAULT_QUIZ_DATA # None THEN Return(DEFAULT_QUIZ_DATA)
       ELSE IF ~argv.has_arg THEN Fatal
       ELSE IF ~argv.exists THEN Fatal
       ELSE IF argv.is_py /\ argv.returncode = 0
            THEN \* return json.loads(result.stdout), outside any try
                 IF argv.stdout = "json" THEN Return(argv.data) ELSE Uncaught
       ELSE IF argv.file = "json" THEN Return(argv.data)
       ELSE IF argv.file = "text" THEN Fatal     \* except json.JSONDecodeError
       ELSE Uncaught                             \* open()/read raised
    /\ UNCHANGED <<argv, env_vars, answer_vars, notebook_vars, last_payload, pdfs,
                   last_call, san_vars>>

(***************************************************************************)
(* QuizWindow.__init__ up to mainloop(): _load_config and setup_ui.        *)
(***************************************************************************)
\* faulty variant: a config file that cannot be parsed is not replaced by the default
_load_config_unguarded(file) ==
    IF file.kind = "absent" THEN CfgObject(DefaultNotebookDir) ELSE file

\* except Exception: pass; return {"notebookPath": str(_default_notebook_dir())}
_load_config(file) ==
    IF file.kind \in {"absent", "corrupt"} THEN CfgObject(DefaultNotebookDir)
    ELSE file

InitialText == <<[prefix |-> "Select an option to see feedback, explanation, and a quick recap.",
                  body |-> <<>>]>>

QuizWindow ==
    /\ pc = "loaded"
    /\ LET cfg == _load_config(cfg_file)
       IN  IF cfg.kind # "object" \/ quiz_data.kind # "object"
           THEN \* self.config.get / quiz_data.get raise AttributeError
                /\ tracebacks' = tracebacks + 1
                /\ pc' = "exited"
                /\ exit_code' = Some(1)
                /\ UNCHANGED <<answer_vars, notebook_vars>>
           ELSE /\ answered' = FALSE
                /\ selected_index' = None
                /\ config' = cfg.notebookPath
                /\ notebook_dir' = IF cfg.notebookPath # "" THEN cfg.notebookPath
                                   ELSE DefaultNotebookDir
                /\ notebook_path_label' = notebook_dir'
                /\ selected_var' = -1
                /\ option_buttons' = [i \in 1..Len(quiz_data.options) |-> "normal"]
                /\ result_badge' = "Waiting"
                /\ result_text' = InitialText
                /\ add_btn' = "disabled"
                /\ pc' = "mainloop"
                /\ UNCHANGED <<exit_code, tracebacks>>
    /\ UNCHANGED <<argv, quiz_data, env_vars, export_vars, last_call, san_vars>>

(***************************************************************************)
(* QuizWindow.submit_answer.  An exception raised in a Tk callback is      *)
(* reported on stderr and the event loop goes on; the assignments made     *)
(* before the raise stay.                                                  *)
(***************************************************************************)
Line(prefix, body) == [prefix |-> prefix, body |-> body]

Feedback(quiz, selected) ==
    LET correct == IntOf(quiz.correctIndex)
        badge == Verdict(selected, correct)
        explanation == Strip(quiz.explanation)
        points == ShownPoints(quiz)
    IN  <<Line(badge, <<"\n">>),
          Line("Your answer: ", Lettered(selected, PyIndex(quiz.options, selected))),
          Line("Correct answer: ",
               Lettered(correct, PyIndex(quiz.options, correct)) \o <<"\n">>)>>
        \o (IF explanation # <<>>
            THEN <<Line("Explanation", <<>>), Line("", explanation \o <<"\n">>)>>
            ELSE <<>>)
        \o (IF points # <<>>
            THEN <<Line("Key points", <<>>)>>
                 \o [i \in 1..Len(points) |-> Line("- ", points[i])]
            ELSE <<>>)

\* faulty variant: the `if self.answered: return` check is missing
SubmitIgnoresAnswered(selected) == selected < 0

\* if self.answered: return ... if selected < 0: return
SubmitReturnsEarly(selected) == answered \/ selected < 0

\* the body of submit_answer when self.selected_var.get() returns `selected`
submit_answer(selected) ==
    IF SubmitReturnsEarly(selected)
    THEN UNCHANGED <<answered, selected_index, option_buttons, add_btn,
                     result_badge, result_text, tracebacks>>
    ELSE /\ selected_index' = Some(selected)
         /\ answered' = TRUE
         /\ IF ~IntOk(quiz_data.correctIndex)
            THEN \* int() raises before the buttons are touched
                 /\ tracebacks' = tracebacks + 1
                 /\ UNCHANGED <<option_buttons, add_btn, result_badge, result_text>>
            ELSE /\ option_buttons' = [i \in 1..Len(option_buttons) |-> "disabled"]
                 /\ IF ~BuildOk(quiz_data, selected)
                    THEN \* options[correct] raises IndexError
                         /\ tracebacks' = tracebacks + 1
                         /\ UNCHANGED <<add_btn, result_badge, result_text>>
                    ELSE /\ result_badge' = Verdict(selected, IntOf(quiz_data.correctIndex))
                         /\ result_text' = Feedback(quiz_data, selected)
                         /\ add_btn' = "normal"
                         /\ UNCHANGED tracebacks

\* faulty variant: the radio buttons carry one-based values
RadioValueOneBased(i) == i

\* setup_ui: the i-th radio button (i = 1, 2, ...) carries value i - 1
RadioValue(i) == i - 1

\* a click on radio button i: Tk ignores it on a disabled button, otherwise
\* stores the button's value in selected_var and runs the command
ClickOption(i) ==
    /\ pc = "mainloop"
    /\ i \in 1..Len(option_buttons)
    /\ option_buttons[i] = "normal"
    /\ selected_var' = RadioValue(i)
    /\ submit_answer(RadioValue(i))
    /\ last_call' = "submit_answer"
    /\ UNCHANGED <<pc, argv, quiz_data, exit_code, env_vars, notebook_vars,
                   export_vars, san_vars>>

\* submit_answer called with selected_var as it stands (the method is
\* public; before any click the variable holds -1)
CallSubmitAnswer ==
    /\ pc = "mainloop"
    /\ submit_answer(selected_var)
    /\ last_call' = "submit_answer"
    /\ UNCHANGED <<pc, argv, quiz_data, exit_code, selected_var, env_vars,
                   notebook_vars, export_vars, san_vars>>

(***************************************************************************)
(* QuizWindow.change_notebook_path                                         *)
(***************************************************************************)
\* try: _save_config(self.config) except Exception: pass
\* (_save_config raises when the file cannot be written)
SaveConfigSwallowed(path) ==
    IF cfg_writable THEN cfg_file' = CfgObject(path) ELSE UNCHANGED cfg_file

\* chosen = filedialog.askdirectory(...); "" when the dialog is cancelled
change_notebook_path(chosen) ==
    /\ pc = "mainloop"
    /\ IF chosen = ""
       THEN UNCHANGED <<notebook_vars, cfg_file>>
       ELSE /\ notebook_dir' = chosen
            /\ config' = chosen
            /\ SaveConfigSwallowed(chosen)
            /\ notebook_path_label' = chosen
    /\ last_call' = "change_notebook_path"
    /\ UNCHANGED <<loader_vars, A4, cfg_writable, dir_writable, answer_vars,
                   export_vars, san_vars>>

(***************************************************************************)
(* QuizWindow.add_to_notebook                                              *)
(***************************************************************************)
PdfPath(dir, payload) == <<dir, "notes", PdfName(payload)>>

\* faulty variant: add_to_notebook does not check that an answer is recorded
ExportNeverReturnsEarly == FALSE

\* if not self.answered or self.selected_index is None: return
ExportReturnsEarly == ~answered \/ selected_index = None

\* _build_note_payload(self.quiz_data, int(self.selected_index)) returns
PayloadBuilt == selected_index # None /\ BuildOk(quiz_data, selected_index[1])

\* pdf_path = _write_notebook_pdf(...); messagebox.showinfo("Saved", ...)
ExportSaved(payload) ==
    /\ last_payload' = Some(payload)
    /\ pdfs' = {f \in pdfs : f.path # PdfPath(notebook_dir, payload)}
               \cup {[path |-> PdfPath(notebook_dir, payload), payload |-> payload]}
    /\ dialogs' = Append(dialogs, ShowInfo("Saved"))
    /\ UNCHANGED tracebacks

\* faulty variant: the exception is not caught and leaves the callback
ExportFailedUncaught ==
    /\ tracebacks' = tracebacks + 1
    /\ UNCHANGED <<pdfs, dialogs>>

\* except Exception as e: messagebox.showerror("Failed", str(e))
ExportFailed ==
    /\ dialogs' = Append(dialogs, ShowError("Failed"))
    /\ UNCHANGED <<pdfs, tracebacks>>

\* add_to_notebook is called (by the button, or directly).
\* _write_notebook_pdf returns iff reportlab was imported, the folders can be
\* made and doc.build succeeds
add_to_notebook ==
    /\ pc = "mainloop"
    /\ IF ExportReturnsEarly
       THEN UNCHANGED <<export_vars, tracebacks>>
       ELSE /\ Len(dialogs) < MaxDialogs
            /\ \E doc_build_ok \in BOOLEAN :
                  IF PayloadBuilt
                  THEN LET payload == _build_note_payload(quiz_data, selected_index[1])
                       IN  IF A4 /\ dir_writable /\ doc_build_ok
                           THEN ExportSaved(payload)
                           ELSE last_payload' = Some(payload) /\ ExportFailed
                  ELSE UNCHANGED last_payload /\ ExportFailed
    /\ last_call' = "add_to_notebook"
    /\ UNCHANGED <<pc, argv, quiz_data, exit_code, env_vars, answer_vars,
                   notebook_vars, san_vars>>

(***************************************************************************)
(* The window is closed: mainloop returns and the process ends.            *)
(***************************************************************************)
CloseWindow ==
    /\ pc = "mainloop"
    /\ pc' = "exited"
    /\ exit_code' = Some(0)
    /\ UNCHANGED <<argv, quiz_data, tracebacks, env_vars, answer_vars,
                   notebook_vars, export_vars, last_call, san_vars>>

\* the file system changes under the running window
FilesystemChange ==
    /\ pc = "mainloop"
    /\ \/ cfg_writable' = ~cfg_writable /\ UNCHANGED dir_writable
       \/ dir_writable' = ~dir_writable /\ UNCHANGED cfg_writable
    /\ UNCHANGED <<loader_vars, A4, cfg_file, answer_vars, notebook_vars,
                   export_vars, last_call, san_vars>>

Next ==
    \/ load_quiz_from_args
    \/ QuizWindow
    \/ \E i \in 1..MaxOptions : ClickOption(i)
    \/ CallSubmitAnswer
    \/ \E chosen \in Paths \cup {""} : change_notebook_path(chosen)
    \/ add_to_notebook
    \/ CloseWindow
    \/ FilesystemChange

Spec == Init /\ [][Next]_vars

(***************************************************************************)
(* The knowledge summary under study: the window is run on one quiz item   *)
(* for every summary up to MaxSummaryLen characters.                       *)
(***************************************************************************)
SeqsUpTo(S, n) == UNION {[1..k -> S] : k \in 0..n}

SummaryChars == {"a", "b", " ", "|", "\n"}
ExampleSummary == <<"a", " ", "|", " ", "b", "|", "c">>
Summaries == SeqsUpTo(SummaryChars, MaxSummaryLen) \cup {ExampleSummary}

InitSummary ==
    /\ \E k \in Summaries :
          Start(JsonFile(Quiz(OptionsOf(2), RawInt(1), SampleQuestion, k,
                              SampleExplanation)),
                CfgAbsent, TRUE)
    /\ cfg_writable = TRUE
    /\ dir_writable = TRUE
    /\ NoSanitize

NextSummary ==
    \/ load_quiz_from_args
    \/ QuizWindow
    \/ \E i \in 1..MaxOptions : ClickOption(i)
    \/ add_to_notebook

SpecSummary == InitSummary /\ [][NextSummary]_vars

(***************************************************************************)
(* _sanitize_filename under study: it is applied to a name, then to its    *)
(* own result.                                                             *)
(***************************************************************************)
NameChars == {"a", " ", "\t", "/", "*"}
Pad(n) == [i \in 1..n |-> "a"]
ExampleName ==
    <<"Q", ":", " ", "w", "h", "a", "t", "/", "i", "s", " ",
      "<", "t", "h", "i", "s", ">", "?">>

\* names around the length limit, with every short head and tail
NameInputs ==
    {h \o Pad(n) \o t :
        h \in SeqsUpTo(NameChars, 1),
        n \in {0, 1} \cup ((MaxNameLen - 2)..(MaxNameLen + 1)),
        t \in SeqsUpTo(NameChars, MaxTail)}
    \cup {ExampleName}

InitSanitize ==
    /\ Start(NoArg, CfgAbsent, TRUE)
    /\ cfg_writable = TRUE
    /\ dir_writable = TRUE
    /\ san_name \in NameInputs
    /\ san_result = <<>>

ApplySanitize ==
    /\ Len(san_result) < MaxApply
    /\ san_result' = Append(san_result,
                            _sanitize_filename(IF san_result = <<>> THEN san_name
                                               ELSE san_result[Len(san_result)]))
    /\ UNCHANGED <<loader_vars, env_vars, answer_vars, notebook_vars, export_vars,
                   last_call, san_name>>

SpecSanitize == InitSanitize /\ [][ApplySanitize]_vars

(***************************************************************************)
(* Properties.                                                             *)
(***************************************************************************)
Alphabet == <<"A", "B", "C", "D", "E", "F">>
LetterDot(i, text) == <<Alphabet[i + 1], ".", " ">> \o text

\* the invariant of QuizItem in the data model of the specification
ValidItem(quiz) ==
    /\ quiz.kind = "object"
    /\ quiz.correctIndex.kind = "int"
    /\ 0 <= quiz.correctIndex.val
    /\ quiz.correctIndex.val < Len(quiz.options)

ExportDialogs == {k \in 1..Len(dialogs) : dialogs[k].title \in {"Saved", "Failed"}}

\* the key points the feedback text shows, in order
ShownList ==
    LET ls == SelectSeq(result_text, LAMBDA l : l.prefix = "- ")
    IN  [k \in 1..Len(ls) |-> ls[k].body]

\* C1: once `answered` is True it stays True and selected_index never
\* changes, whatever handler runs; a click on an enabled option in the
\* unanswered window records that option and sets `answered`.
C1_AnswerOnce ==
    [][ /\ answered => (answered' /\ selected_index' = selected_index)
        /\ \A i \in 1..MaxOptions :
              (~answered /\ ClickOption(i)) =>
                  (answered' /\ selected_index' = Some(i - 1)) ]_vars

\* an answered window in which a later click named another option
C1_Witness ==
    /\ answered
    /\ selected_index # None
    /\ selected_var >= 0
    /\ selected_var # selected_index[1]

\* C2: while no answer is recorded the export button is disabled and
\* add_to_notebook has built no payload, written no PDF and shown no dialog.
C2_NoExportBeforeAnswer ==
    (~answered \/ selected_index = None) =>
        /\ add_btn = "disabled"
        /\ last_payload = None
        /\ pdfs = {}
        /\ ExportDialogs = {}

\* add_to_notebook has been called in the unanswered window
C2_Witness ==
    /\ pc = "mainloop"
    /\ ~answered
    /\ last_call = "add_to_notebook"

\* C3: for a quiz item with a valid correctIndex, the first selection i
\* gives the badge "Correct" iff i = correctIndex and "Incorrect" otherwise,
\* and the feedback names "<letter of i>. <options[i]>" as the answer and
\* "<letter of correctIndex>. <options[correctIndex]>" as the correct one;
\* options 3,4,5 with correctIndex 1 and selection 0 give "Incorrect", "B. 4".
C3_VerdictAndNames ==
    (answered /\ ValidItem(quiz_data)) =>
        LET sel == selected_index[1]
            cor == quiz_data.correctIndex.val
        IN  /\ (result_badge = "Correct") <=> (sel = cor)
            /\ (result_badge = "Incorrect") <=> (sel # cor)
            /\ result_text[1].prefix = result_badge
            /\ result_text[2] =
                  Line("Your answer: ", LetterDot(sel, quiz_data.options[sel + 1]))
            /\ result_text[3] =
                  Line("Correct answer: ",
                       LetterDot(cor, quiz_data.options[cor + 1]) \o <<"\n">>)
            /\ (quiz_data = SampleQuiz /\ sel = 0) =>
                  /\ result_badge = "Incorrect"
                  /\ result_text[3].body = <<"B", ".", " ", "4", "\n">>

\* the sample item answered with option A
C3_Witness ==
    /\ answered
    /\ quiz_data = SampleQuiz
    /\ selected_index = Some(0)
    /\ result_badge = "Incorrect"

\* C4: whenever `answered` is True every radio button is disabled and the
\* export button is enabled.
C4_AnsweredControls ==
    answered =>
        /\ \A i \in 1..Len(option_buttons) : option_buttons[i] = "disabled"
        /\ add_btn = "normal"

\* C5: an add_to_notebook run in the answered window shows exactly one
\* dialog; it is the "Saved" dialog only if the payload was built, reportlab
\* is present and the folder is writable, and then the PDF is on disk;
\* otherwise it is the "Failed" dialog and no file is written.  The run
\* raises nothing and leaves answered, selected_index, notebook_dir and the
\* running window as they were.
C5_ExportFailureCaught ==
    [][ (add_to_notebook /\ answered) =>
          /\ Len(dialogs') = Len(dialogs) + 1
          /\ SubSeq(dialogs', 1, Len(dialogs)) = dialogs
          /\ dialogs'[Len(dialogs')] \in {ShowInfo("Saved"), ShowError("Failed")}
          /\ dialogs'[Len(dialogs')] = ShowInfo("Saved") =>
                /\ PayloadBuilt /\ A4 /\ dir_writable
                /\ \E f \in pdfs' : f.path[1] = notebook_dir
          /\ dialogs'[Len(dialogs')] = ShowError("Failed") => pdfs' = pdfs
          /\ tracebacks' = tracebacks
          /\ pc' = "mainloop"
          /\ answered' = answered
          /\ selected_index' = selected_index
          /\ notebook_dir' = notebook_dir ]_vars

\* an export failed and a later export succeeded
C5_Witness ==
    /\ pc = "mainloop"
    /\ answered
    /\ dialogs = <<ShowError("Failed"), ShowInfo("Saved")>>
    /\ pdfs # {}

\* the loader gets as far as open() and the file cannot be read
ReadRaises ==
    /\ argv.has_arg
    /\ argv.exists
    /\ ~(argv.is_py /\ argv.returncode = 0)
    /\ argv.file = "unreadable"

\* C6: load_quiz_from_args either returns or shows the error dialog and
\* exits with code 1: for a missing argument, a missing file and every
\* parse failure (a file that can be read is all the claim lists).
C6_LoadOrFatal ==
    [][ (load_quiz_from_args /\ ~ReadRaises) =>
          \/ pc' = "loaded"
          \/ /\ pc' = "exited"
             /\ exit_code' = Some(1)
             /\ dialogs' = <<ShowError("Error")>> ]_vars

\* C7: the key points shown for a summary are non-empty, trimmed and free
\* of "|" and newline; joining them with "|" and splitting again gives the
\* same list; "a | b|c" gives a, b, c; a summary of whitespace only gives
\* none; the payload built for the note holds the same list.
C7_SummarySplit ==
    (answered /\ add_btn = "normal") =>
        LET shown == ShownList
            summary == quiz_data.knowledgeSummary
        IN  /\ \A k \in 1..Len(shown) :
                  /\ Len(shown[k]) > 0
                  /\ shown[k][1] \notin Whitespace
                  /\ shown[k][Len(shown[k])] \notin Whitespace
                  /\ \A c \in 1..Len(shown[k]) : shown[k][c] \notin {"|", "\n"}
            /\ SplitPoints(Join(shown, <<"|">>)) = shown
            /\ summary = ExampleSummary => shown = << <<"a">>, <<"b">>, <<"c">> >>
            /\ (\A c \in 1..Len(summary) : summary[c] \in Whitespace) => shown = <<>>
            /\ last_payload # None => last_payload[1].key_points = shown

\* "a | b|c" was shown as three points and exported
C7_Witness ==
    /\ answered
    /\ quiz_data.knowledgeSummary = ExampleSummary
    /\ last_payload # None
    /\ Len(ShownList) = 3

\* C8: every result of _sanitize_filename has none of the characters of
\* `bad`, no leading or trailing whitespace, no two adjacent whitespace
\* characters and at most 80 characters, and applying the function to a
\* result returns it unchanged.
C8_SanitizeSafe ==
    \A k \in 1..Len(san_result) :
        LET r == san_result[k]
        IN  /\ \A c \in 1..Len(r) : \A b \in 1..Len(bad) : r[c] # bad[b]
            /\ r # <<>> => (r[1] \notin Whitespace /\ r[Len(r)] \notin Whitespace)
            /\ \A c \in 1..(Len(r) - 1) :
                  ~(r[c] \in Whitespace /\ r[c + 1] \in Whitespace)
            /\ Len(r) <= 80
            /\ k > 1 => r = san_result[k - 1]

\* the operations of C9 and what their failure is
ConfigLoadFails == QuizWindow /\ cfg_file.kind = "corrupt"
ConfigSaveFails(chosen) == change_notebook_path(chosen) /\ chosen # "" /\ ~cfg_writable
ExportFails ==
    /\ add_to_notebook
    /\ answered
    /\ ~(PayloadBuilt /\ A4 /\ dir_writable)
QuizLoadFails == load_quiz_from_args /\ pc' # "loaded"
ErrorSurfaced == Len(dialogs') > Len(dialogs) \/ pc' = "exited"

\* C9 as stated: every failing operation (config load, config save, export,
\* quiz load) ends in a dialog or in the exit of the process.
C9_NothingSwallowed ==
    [][ /\ ConfigLoadFails => ErrorSurfaced
        /\ \A chosen \in Paths : ConfigSaveFails(chosen) => ErrorSurfaced
        /\ ExportFails => ErrorSurfaced
        /\ QuizLoadFails => ErrorSurfaced ]_vars

\* C9 as amended: a failing export or quiz load ends in a dialog or in the
\* exit of the process; a config file that cannot be read is replaced by the
\* default folder and a config file that cannot be written is left as it
\* was, both without dialog or traceback, and the window goes on.
C9_OnlyConfigSwallowed ==
    [][ /\ ExportFails => ErrorSurfaced
        /\ QuizLoadFails => ErrorSurfaced
        /\ (ConfigLoadFails /\ quiz_data.kind = "object") =>
              /\ pc' = "mainloop"
              /\ notebook_dir' = DefaultNotebookDir
              /\ dialogs' = dialogs
              /\ tracebacks' = tracebacks
        /\ \A chosen \in Paths :
              ConfigSaveFails(chosen) =>
                  /\ pc' = "mainloop"
                  /\ notebook_dir' = chosen
                  /\ notebook_path_label' = chosen
                  /\ cfg_file' = cfg_file
                  /\ dialogs' = dialogs
                  /\ tracebacks' = tracebacks ]_vars

\* the folder was changed while config.json could not be written: the window
\* uses the new folder, the file is still absent and nothing was shown
C9_Witness ==
    /\ pc = "mainloop"
    /\ last_call = "change_notebook_path"
    /\ notebook_dir = "/mnt/notes"
    /\ cfg_file = CfgAbsent
    /\ dialogs = <<>>
    /\ tracebacks = 0

C10_Indexed ==
    /\ answered <=> selected_index # None
    /\ selected_index # None =>
          /\ 0 <= selected_index[1]
          /\ selected_index[1] < Len(quiz_data.options)
    /\ last_payload # None =>
          /\ selected_index # None
          /\ last_payload[1].sections[2].body =
                LetterDot(selected_index[1], quiz_data.options[selected_index[1] + 1])

\* C10: `answered` holds iff selected_index is not None; selected_index is
\* then the index of the clicked option and a valid index into options, and
\* every payload is built from it.
C10_SelectedIndexValid ==
    /\ []C10_Indexed
    /\ [][ (~answered /\ answered') =>
              \E i \in 1..Len(option_buttons) :
                  ClickOption(i) /\ selected_index' = Some(i - 1) ]_vars

\* the last option was chosen and exported
C10_Witness ==
    /\ answered
    /\ selected_index = Some(2)
    /\ last_payload # None

====
